---- MODULE Spec2Model ----
(***************************************************************************)
(* Azul-lite (play_azul.py): the console game engine as a state machine.   *)
(* The state is the AzulGame object (factories, center, bag, discard, rng, *)
(* the two Player boards, the turn pointer) plus the position of play()'s  *)
(* loop.  One action per command the loop executes: a factory draft, a     *)
(* center draft and the end-of-round commit.                               *)
(*                                                                         *)
(* Colours are numbered 1..NumColors in the order of COLORS; None is 0.    *)
(* The board is scaled: GridSize rows and columns, one per colour.         *)
(***************************************************************************)
EXTENDS Integers, Sequences, FiniteSets, Bags, TLC

\* ---- bounds (the program has 5 colours, 20 tiles each, 5 factories) ----
NumColors == 2
TilesPerColor == 17
NumFactories == 4
RngMod == 2
\* candidates MiniMaxAgent.choose looks at (12 in the program, where the first
\* round alone offers 25 actions; scaled with the board)
MaxCandidates == 3

\* ---- program constants ----
FactorySize == 4
NumPlayers == 2
None == 0
FLOOR_PENALTIES == <<-1, -1, -2, -2, -2, -3, -3>>

COLORS == 1..NumColors
GridSize == NumColors
Rows == 1..GridSize
ROW_CAP == [r \in Rows |-> r]
Players == 0..(NumPlayers - 1)
FactoryIdx == 0..(NumFactories - 1)

VARIABLES
    factories,  \* self.factories : factory index -> list of tiles
    center,     \* self.center    : list of tiles
    bag,        \* self.bag       : list of tiles, drawn from the end
    discard,    \* self.discard   : list of tiles
    rng,        \* self.rng       : state of the random generator
    pattern,    \* players[p].pattern : row -> [color, count]
    wall,       \* players[p].wall    : row -> column -> 0/1
    score,      \* players[p].score
    floor,      \* players[p].floor   : list of tiles
    current,    \* self.current
    starting_player_marker_taken, \* GameState.starting_player_marker_taken
    oracle_fault, \* the query the Prolog engine has no answer for, if any
    player_board, \* a PlayerBoard (board.py): pattern_lines and wall
    round_drafts, \* accepted drafts since the factories were last filled
    pc,         \* position of play(): "draft" in the loop, "over" after break
    last,       \* the command executed by the last step and its result
    pre         \* the game as it was when that command started

gameVars == <<factories, center, bag, discard, rng, pattern, wall, score, floor, current>>
vars == <<factories, center, bag, discard, rng, pattern, wall, score, floor, current,
          starting_player_marker_taken, oracle_fault, player_board, round_drafts,
          pc, last, pre>>

\* ---- list helpers (Python list operations) ----
Min(a, b) == IF a < b THEN a ELSE b

Repeat(x, n) == [i \in 1..n |-> x]

Contains(s, x) == \E i \in 1..Len(s) : s[i] = x

CountOf(s, x) == Cardinality({i \in 1..Len(s) : s[i] = x})

Without(s, x) == SelectSeq(s, LAMBDA t : t # x)

Front(s) == SubSeq(s, 1, Len(s) - 1)

Swap(s, i, j) == [s EXCEPT ![i] = s[j], ![j] = s[i]]

RECURSIVE SumSeq(_)
SumSeq(s) == IF s = <<>> THEN 0 ELSE s[1] + SumSeq(Tail(s))

\* ---- the rule oracle (azul.pl), as lists of answers ----
\* wall_column_for(Row, Color, C): the column of Color in Row of the wall pattern
\* the oracle answers every query of the rules; NoFault is its normal state,
\* a fault names one (row, colour) whose column query ("nocol") or score
\* query ("noscore") yields no answer
NoFault == [mode |-> "none", row |-> None, color |-> None]

Unanswered(mode, row, color) ==
    oracle_fault.mode = mode /\ oracle_fault.row = row /\ oracle_fault.color = color

wall_column_for(row, color) ==
    IF row \in Rows /\ color \in COLORS /\ ~Unanswered("nocol", row, color)
    THEN << ((color - 1 + row - 1) % GridSize) + 1 >>
    ELSE << >>

\* legal_placement(Row, Color, Grid): succeeds when the cell of Color in Row is free
legal_placement(row, color, grid) ==
    IF wall_column_for(row, color) # << >> /\ grid[row][wall_column_for(row, color)[1]] = 0
    THEN << TRUE >>
    ELSE << >>

RECURSIVE Run(_, _, _, _, _)
Run(grid, r, c, dr, dc) ==
    IF (r + dr) \in Rows /\ (c + dc) \in Rows /\ grid[r + dr][c + dc] = 1
    THEN 1 + Run(grid, r + dr, c + dc, dr, dc)
    ELSE 0

\* score_for_placement(Grid, Row, Color, S): adjacency score of the new tile
score_for_placement(grid, row, color) ==
    IF wall_column_for(row, color) = << >> \/ Unanswered("noscore", row, color) THEN << >>
    ELSE LET col == wall_column_for(row, color)[1]
             h == Run(grid, row, col, 0, -1) + Run(grid, row, col, 0, 1)
             v == Run(grid, row, col, -1, 0) + Run(grid, row, col, 1, 0)
         IN  << IF h = 0 /\ v = 0 THEN 1
                ELSE (IF h > 0 THEN h + 1 ELSE 0) + (IF v > 0 THEN v + 1 ELSE 0) >>

\* ---- random.Random: shuffle() draws one number per position ----
randbelow(s, n) == s % n

rng_next(s) == (s + 1) % RngMod

RECURSIVE shuffle(_, _, _)
shuffle(x, s, i) ==
    IF i < 2 THEN [x |-> x, rng |-> s]
    ELSE shuffle(Swap(x, i, randbelow(s, i) + 1), rng_next(s), i - 1)

\* ---- AzulGame ----
\* variant: the discard is copied into the bag and not emptied
RECURSIVE draw_tiles_keeps_discard(_, _)
draw_tiles_keeps_discard(st, n) ==
    IF n = 0 THEN st
    ELSE LET sh == shuffle(st.discard, st.rng, Len(st.discard))
             s1 == IF st.bag = << >>
                   THEN [st EXCEPT !.bag = sh.x, !.rng = sh.rng]
                   ELSE st
         IN  IF s1.bag = << >> THEN s1
             ELSE draw_tiles_keeps_discard([s1 EXCEPT !.out = Append(@, s1.bag[Len(s1.bag)]),
                                                      !.bag = Front(s1.bag)], n - 1)

RECURSIVE draw_tiles(_, _)
draw_tiles(st, n) ==
    IF n = 0 THEN st
    ELSE LET sh == shuffle(st.discard, st.rng, Len(st.discard))
             s1 == IF st.bag = << >>
                   THEN [st EXCEPT !.bag = sh.x, !.discard = << >>, !.rng = sh.rng]
                   ELSE st
         IN  IF s1.bag = << >> THEN s1
             ELSE draw_tiles([s1 EXCEPT !.out = Append(@, s1.bag[Len(s1.bag)]),
                                        !.bag = Front(s1.bag)], n - 1)

RECURSIVE refill_factories(_, _)
refill_factories(g, i) ==
    IF i >= NumFactories THEN g
    ELSE LET d == draw_tiles([out |-> << >>, bag |-> g.bag, discard |-> g.discard, rng |-> g.rng],
                             FactorySize)
         IN  refill_factories([g EXCEPT !.factories[i] = d.out, !.bag = d.bag,
                                        !.discard = d.discard, !.rng = d.rng], i + 1)

\* variant: only the factories are looked at
is_round_empty_nocenter ==
    IF \E i \in FactoryIdx : factories[i] # << >> THEN FALSE
    ELSE TRUE

\* play_azul_fullui.py, lines 186-187
is_round_empty_fullui ==
    (\A i \in FactoryIdx : Len(factories[i]) = 0) /\ Len(center) = 0

\* gameState.py, lines 53-62: the inner loop of GameState.refill_factories
RECURSIVE gs_fill_factory(_, _)
gs_fill_factory(st, n) ==
    IF n = 0 THEN st
    ELSE LET sh == shuffle(st.discard, st.rng, Len(st.discard))
             s1 == IF st.bag = << >>
                   THEN [st EXCEPT !.bag = sh.x, !.discard = << >>, !.rng = sh.rng]
                   ELSE st
             s2 == IF s1.bag # << >>
                   THEN [s1 EXCEPT !.out = Append(@, s1.bag[Len(s1.bag)]), !.bag = Front(s1.bag)]
                   ELSE s1
         IN  gs_fill_factory(s2, n - 1)

\* gameState.py, lines 50-62: GameState.refill_factories
RECURSIVE gs_refill_factories(_, _)
gs_refill_factories(g, i) ==
    IF i >= NumFactories THEN g
    ELSE LET d == gs_fill_factory([out |-> << >>, bag |-> g.bag, discard |-> g.discard,
                                   rng |-> g.rng], FactorySize)
         IN  gs_refill_factories([g EXCEPT !.factories[i] = d.out, !.bag = d.bag,
                                           !.discard = d.discard, !.rng = d.rng], i + 1)

is_round_empty ==
    IF \E i \in FactoryIdx : factories[i] # << >> THEN FALSE
    ELSE IF center # << >> THEN FALSE
    ELSE TRUE

\* variant: the turn pointer is left where it is
next_player_stays == current

\* play_azul_fullui.py, lines 189-190
next_player_fullui == (current + 1) % NumPlayers

next_player == 1 - current

legal_wall_target(row, color, grid) ==
    LET answers == legal_placement(row, color, grid)
    IN  Len(answers) >= 0

prolog_score(row, color, grid) ==
    LET col_res == wall_column_for(row, color)
        sc_res == score_for_placement(grid, row, color)
    IN  IF col_res = << >> THEN [sc |-> 0, col |-> None]
        ELSE IF sc_res = << >> THEN [sc |-> 0, col |-> col_res[1]]
        ELSE [sc |-> sc_res[1], col |-> col_res[1]]

\* variant: every tile on the floor is charged, the ones past the schedule at its last rate
floor_penalty_uncapped(fl) ==
    SumSeq([i \in 1..Len(fl) |-> FLOOR_PENALTIES[Min(i, Len(FLOOR_PENALTIES))]])

floor_penalty(fl) ==
    SumSeq(SubSeq(FLOOR_PENALTIES, 1, Min(Len(fl), Len(FLOOR_PENALTIES))))

\* variant: a full column is taken for a full row
has_completed_row_column(grid) ==
    \E c \in Rows : SumSeq([r \in Rows |-> grid[r][c]]) = GridSize

has_completed_row(grid) ==
    \E r \in Rows : SumSeq([c \in Rows |-> grid[r][c]]) = GridSize

check_end_game(w) == \E p \in Players : has_completed_row(w[p])

\* variant: the free room is taken to be the whole capacity
place_into_line_nocount(line, cap, color, n) ==
    LET available == cap
        to_line == Min(available, n)
        overflow == n - to_line
    IN  [line |-> [color |-> IF line.color = None /\ to_line > 0 THEN color ELSE line.color,
                   count |-> line.count + to_line],
         overflow |-> overflow]

\* variant: the colour of the line is never recorded
place_into_line_nocolor(line, cap, color, n) ==
    LET available == cap - line.count
        to_line == Min(available, n)
        overflow == n - to_line
    IN  [line |-> [color |-> line.color, count |-> line.count + to_line],
         overflow |-> overflow]

\* lines 185-190 and 210-215: fill the line, the surplus overflows
place_into_line(line, cap, color, n) ==
    LET available == cap - line.count
        to_line == Min(available, n)
        overflow == n - to_line
    IN  [line |-> [color |-> IF line.color = None /\ to_line > 0 THEN color ELSE line.color,
                   count |-> line.count + to_line],
         overflow |-> overflow]

\* variant: the colour of the target row is not looked at
factory_accepts_anyrow(pid, k, color, row) ==
    /\ ~(k < 0 \/ k >= NumFactories)
    /\ Contains(factories[k], color)
    /\ legal_wall_target(row, color, wall[pid])

factory_accepts(pid, k, color, row) ==
    /\ ~(k < 0 \/ k >= NumFactories)
    /\ Contains(factories[k], color)
    /\ pattern[pid][row].color \in {None, color}
    /\ legal_wall_target(row, color, wall[pid])

center_accepts(pid, color, row) ==
    /\ Contains(center, color)
    /\ pattern[pid][row].color \in {None, color}
    /\ legal_wall_target(row, color, wall[pid])

Snapshot ==
    [factories |-> factories, center |-> center, bag |-> bag, discard |-> discard,
     rng |-> rng, pattern |-> pattern, wall |-> wall, score |-> score,
     floor |-> floor, current |-> current]

Call(op, pid, k, color, row, ok) ==
    [op |-> op, pid |-> pid, k |-> k, color |-> color, row |-> row, ok |-> ok]

\* lines 179-180: the tiles taken and the tiles left behind
factory_picked(f, color) == SelectSeq(f, LAMBDA t : t = color)

\* variant: the whole factory is pushed to the center
factory_rest_all(f, color) == f

factory_rest(f, color) == Without(f, color)

\* variant: the factory is cleared into the center before the row is validated
take_from_factory_eager(k, color, row) ==
    /\ pc = "draft"
    /\ ~is_round_empty
    /\ pre' = Snapshot
    /\ UNCHANGED <<starting_player_marker_taken, oracle_fault, player_board>>
    /\ round_drafts' = IF factory_accepts(current, k, color, row) THEN round_drafts + 1 ELSE round_drafts
    /\ IF factory_accepts(current, k, color, row)
       THEN LET picked == factory_picked(factories[k], color)
                rest == factory_rest(factories[k], color)
                pl == place_into_line(pattern[current][row], ROW_CAP[row], color, Len(picked))
            IN  /\ factories' = [factories EXCEPT ![k] = << >>]
                /\ center' = center \o rest
                /\ pattern' = [pattern EXCEPT ![current][row] = pl.line]
                /\ floor' = [floor EXCEPT ![current] = @ \o Repeat(color, pl.overflow)]
                /\ current' = next_player
                /\ last' = Call("factory", current, k, color, row, TRUE)
                /\ UNCHANGED <<bag, discard, rng, wall, score, pc>>
       ELSE /\ last' = Call("factory", current, k, color, row, FALSE)
            /\ IF k \in FactoryIdx /\ Contains(factories[k], color)
               THEN /\ factories' = [factories EXCEPT ![k] = << >>]
                    /\ center' = center \o factory_rest(factories[k], color)
               ELSE UNCHANGED <<factories, center>>
            /\ UNCHANGED <<bag, discard, rng, pattern, wall, score, floor, current, pc>>

\* variant: the overflow lands on the floor of the player who moves next
take_from_factory_floor_next(k, color, row) ==
    /\ pc = "draft"
    /\ ~is_round_empty
    /\ pre' = Snapshot
    /\ UNCHANGED <<starting_player_marker_taken, oracle_fault, player_board>>
    /\ round_drafts' = IF factory_accepts(current, k, color, row) THEN round_drafts + 1 ELSE round_drafts
    /\ IF factory_accepts(current, k, color, row)
       THEN LET picked == factory_picked(factories[k], color)
                rest == factory_rest(factories[k], color)
                pl == place_into_line(pattern[current][row], ROW_CAP[row], color, Len(picked))
            IN  /\ factories' = [factories EXCEPT ![k] = << >>]
                /\ center' = center \o rest
                /\ pattern' = [pattern EXCEPT ![current][row] = pl.line]
                /\ floor' = [floor EXCEPT ![next_player] = @ \o Repeat(color, pl.overflow)]
                /\ current' = next_player
                /\ last' = Call("factory", current, k, color, row, TRUE)
                /\ UNCHANGED <<bag, discard, rng, wall, score, pc>>
       ELSE /\ last' = Call("factory", current, k, color, row, FALSE)
            /\ UNCHANGED <<gameVars, pc>>

\* play(): "f k color row" by the current player
take_from_factory(k, color, row) ==
    /\ pc = "draft"
    /\ ~is_round_empty
    /\ pre' = Snapshot
    /\ UNCHANGED <<starting_player_marker_taken, oracle_fault, player_board>>
    /\ round_drafts' = IF factory_accepts(current, k, color, row) THEN round_drafts + 1 ELSE round_drafts
    /\ IF factory_accepts(current, k, color, row)
       THEN LET picked == factory_picked(factories[k], color)
                rest == factory_rest(factories[k], color)
                pl == place_into_line(pattern[current][row], ROW_CAP[row], color, Len(picked))
            IN  /\ factories' = [factories EXCEPT ![k] = << >>]
                /\ center' = center \o rest
                /\ pattern' = [pattern EXCEPT ![current][row] = pl.line]
                /\ floor' = [floor EXCEPT ![current] = @ \o Repeat(color, pl.overflow)]
                /\ current' = next_player
                /\ last' = Call("factory", current, k, color, row, TRUE)
                /\ UNCHANGED <<bag, discard, rng, wall, score, pc>>
       ELSE /\ last' = Call("factory", current, k, color, row, FALSE)
            /\ UNCHANGED <<gameVars, pc>>

\* variant: the tiles the row has no room for stay in the center
take_from_center_leaves_overflow(color, row) ==
    /\ pc = "draft"
    /\ ~is_round_empty
    /\ pre' = Snapshot
    /\ UNCHANGED <<starting_player_marker_taken, oracle_fault, player_board>>
    /\ round_drafts' = IF center_accepts(current, color, row) THEN round_drafts + 1 ELSE round_drafts
    /\ IF center_accepts(current, color, row)
       THEN LET count == CountOf(center, color)
                pl == place_into_line(pattern[current][row], ROW_CAP[row], color, count)
            IN  /\ center' = Without(center, color) \o Repeat(color, pl.overflow)
                /\ pattern' = [pattern EXCEPT ![current][row] = pl.line]
                /\ floor' = floor
                /\ current' = next_player
                /\ last' = Call("center", current, None, color, row, TRUE)
                /\ UNCHANGED <<factories, bag, discard, rng, wall, score, pc>>
       ELSE /\ last' = Call("center", current, None, color, row, FALSE)
            /\ UNCHANGED <<gameVars, pc>>

\* play(): "c color row" by the current player
take_from_center(color, row) ==
    /\ pc = "draft"
    /\ ~is_round_empty
    /\ pre' = Snapshot
    /\ UNCHANGED <<starting_player_marker_taken, oracle_fault, player_board>>
    /\ round_drafts' = IF center_accepts(current, color, row) THEN round_drafts + 1 ELSE round_drafts
    /\ IF center_accepts(current, color, row)
       THEN LET count == CountOf(center, color)
                pl == place_into_line(pattern[current][row], ROW_CAP[row], color, count)
            IN  /\ center' = Without(center, color)
                /\ pattern' = [pattern EXCEPT ![current][row] = pl.line]
                /\ floor' = [floor EXCEPT ![current] = @ \o Repeat(color, pl.overflow)]
                /\ current' = next_player
                /\ last' = Call("center", current, None, color, row, TRUE)
                /\ UNCHANGED <<factories, bag, discard, rng, wall, score, pc>>
       ELSE /\ last' = Call("center", current, None, color, row, FALSE)
            /\ UNCHANGED <<gameVars, pc>>

\* variant: the wall row is rebuilt around the new tile
commit_row_resets(g, p, row) ==
    LET line == g.pattern[p][row]
        ps == prolog_score(row, line.color, g.wall[p])
    IN  IF line.count = ROW_CAP[row] /\ line.color # None
        THEN IF ps.col = None THEN g
             ELSE [g EXCEPT !.wall[p][row] = [c \in Rows |-> IF c = ps.col THEN 1 ELSE 0],
                            !.score[p] = @ + ps.sc,
                            !.discard = @ \o Repeat(line.color, ROW_CAP[row] - 1),
                            !.pattern[p][row] = [color |-> None, count |-> 0]]
        ELSE g

\* variant: the score is assigned, not accumulated
commit_row_assigns(g, p, row) ==
    LET line == g.pattern[p][row]
        ps == prolog_score(row, line.color, g.wall[p])
    IN  IF line.count = ROW_CAP[row] /\ line.color # None
        THEN IF ps.col = None THEN g
             ELSE [g EXCEPT !.wall[p][row][ps.col] = 1,
                            !.score[p] = ps.sc,
                            !.discard = @ \o Repeat(line.color, ROW_CAP[row] - 1),
                            !.pattern[p][row] = [color |-> None, count |-> 0]]
        ELSE g

\* variant: a row the oracle has no column for is cleared all the same
commit_row_clears_unplaced(g, p, row) ==
    LET line == g.pattern[p][row]
        ps == prolog_score(row, line.color, g.wall[p])
    IN  IF line.count = ROW_CAP[row] /\ line.color # None
        THEN IF ps.col = None
             THEN [g EXCEPT !.pattern[p][row] = [color |-> None, count |-> 0]]
             ELSE [g EXCEPT !.wall[p][row][ps.col] = 1,
                            !.score[p] = @ + ps.sc,
                            !.discard = @ \o Repeat(line.color, ROW_CAP[row] - 1),
                            !.pattern[p][row] = [color |-> None, count |-> 0]]
        ELSE g

\* variant: the whole row goes to the discard
commit_row_discards_all(g, p, row) ==
    LET line == g.pattern[p][row]
        ps == prolog_score(row, line.color, g.wall[p])
    IN  IF line.count = ROW_CAP[row] /\ line.color # None
        THEN IF ps.col = None THEN g
             ELSE [g EXCEPT !.wall[p][row][ps.col] = 1,
                            !.score[p] = @ + ps.sc,
                            !.discard = @ \o Repeat(line.color, ROW_CAP[row]),
                            !.pattern[p][row] = [color |-> None, count |-> 0]]
        ELSE g

\* variant: a row that is not full is emptied as well
commit_row_clears_partial(g, p, row) ==
    LET line == g.pattern[p][row]
        ps == prolog_score(row, line.color, g.wall[p])
    IN  IF line.count = ROW_CAP[row] /\ line.color # None
        THEN IF ps.col = None THEN g
             ELSE [g EXCEPT !.wall[p][row][ps.col] = 1,
                            !.score[p] = @ + ps.sc,
                            !.discard = @ \o Repeat(line.color, ROW_CAP[row] - 1),
                            !.pattern[p][row] = [color |-> None, count |-> 0]]
        ELSE [g EXCEPT !.pattern[p][row] = [color |-> None, count |-> 0]]

\* end_round, lines 226-238: one row of one player
commit_row(g, p, row) ==
    LET line == g.pattern[p][row]
        ps == prolog_score(row, line.color, g.wall[p])
    IN  IF line.count = ROW_CAP[row] /\ line.color # None
        THEN IF ps.col = None THEN g
             ELSE [g EXCEPT !.wall[p][row][ps.col] = 1,
                            !.score[p] = @ + ps.sc,
                            !.discard = @ \o Repeat(line.color, ROW_CAP[row] - 1),
                            !.pattern[p][row] = [color |-> None, count |-> 0]]
        ELSE g

RECURSIVE commit_rows(_, _, _)
commit_rows(g, p, row) ==
    IF row > GridSize THEN g
    ELSE commit_rows(commit_row(g, p, row), p, row + 1)

\* end_round, lines 239-244: the floor of one player
apply_floor(g, p) ==
    LET pen == floor_penalty(g.floor[p])
    IN  [g EXCEPT !.score[p] = IF pen < 0 THEN @ + pen ELSE @,
                  !.floor[p] = << >>]

\* variant: the players are processed from the last to the first
RECURSIVE commit_players_reversed(_, _)
commit_players_reversed(g, p) ==
    IF p >= NumPlayers THEN g
    ELSE apply_floor(commit_rows(commit_players_reversed(g, p + 1), p, 1), p)

RECURSIVE commit_players(_, _)
commit_players(g, p) ==
    IF p >= NumPlayers THEN g
    ELSE commit_players(apply_floor(commit_rows(g, p, 1), p), p + 1)

end_round(g) ==
    refill_factories([commit_players(g, 0) EXCEPT !.center = << >>], 0)

\* variant: the round is ended as soon as the factories are empty
EndRound_factories ==
    /\ pc = "draft"
    /\ \A i \in FactoryIdx : factories[i] = << >>
    /\ pre' = Snapshot
    /\ UNCHANGED <<starting_player_marker_taken, oracle_fault, player_board>>
    /\ round_drafts' = 0
    /\ LET g == end_round(Snapshot)
       IN  /\ factories' = g.factories
           /\ center' = g.center
           /\ bag' = g.bag
           /\ discard' = g.discard
           /\ rng' = g.rng
           /\ pattern' = g.pattern
           /\ wall' = g.wall
           /\ score' = g.score
           /\ floor' = g.floor
           /\ current' = g.current
           /\ pc' = IF check_end_game(g.wall) THEN "over" ELSE "draft"
    /\ last' = Call("end_round", None, None, None, None, TRUE)

\* play(), lines 295-301: the round is empty, commit and test for the end
EndRound ==
    /\ pc = "draft"
    /\ is_round_empty
    /\ pre' = Snapshot
    /\ UNCHANGED <<starting_player_marker_taken, oracle_fault, player_board>>
    /\ round_drafts' = 0
    /\ LET g == end_round(Snapshot)
       IN  /\ factories' = g.factories
           /\ center' = g.center
           /\ bag' = g.bag
           /\ discard' = g.discard
           /\ rng' = g.rng
           /\ pattern' = g.pattern
           /\ wall' = g.wall
           /\ score' = g.score
           /\ floor' = g.floor
           /\ current' = g.current
           /\ pc' = IF check_end_game(g.wall) THEN "over" ELSE "draft"
    /\ last' = Call("end_round", None, None, None, None, TRUE)

\* play(), lines 266-276 and 288-289: empty line, "help", "show" or a bad command
OtherCommand ==
    /\ pc = "draft"
    /\ ~is_round_empty
    /\ pre' = Snapshot
    /\ UNCHANGED <<starting_player_marker_taken, oracle_fault, player_board, round_drafts>>
    /\ last' = Call("other", current, None, None, None, FALSE)
    /\ UNCHANGED <<gameVars, pc>>

\* AzulGame.__init__ and Player.__init__
InitBag == [i \in 1..(NumColors * TilesPerColor) |-> ((i - 1) \div TilesPerColor) + 1]

InitGame(seed) ==
    refill_factories(
        [factories |-> [i \in FactoryIdx |-> << >>], center |-> << >>,
         bag |-> InitBag, discard |-> << >>, rng |-> seed,
         pattern |-> [p \in Players |-> [r \in Rows |-> [color |-> None, count |-> 0]]],
         wall |-> [p \in Players |-> [r \in Rows |-> [c \in Rows |-> 0]]],
         score |-> [p \in Players |-> 0],
         floor |-> [p \in Players |-> << >>],
         current |-> 0], 0)

\* the game after AzulGame.__init__
GameInit ==
    \E seed \in 0..(RngMod - 1) :
        LET g == InitGame(seed)
        IN  /\ factories = g.factories
            /\ center = g.center
            /\ bag = g.bag
            /\ discard = g.discard
            /\ rng = g.rng
            /\ pattern = g.pattern
            /\ wall = g.wall
            /\ score = g.score
            /\ floor = g.floor
            /\ current = g.current
            /\ starting_player_marker_taken = FALSE
            /\ oracle_fault = NoFault
            /\ round_drafts = 0
            /\ pc = "draft"
            /\ last = Call("init", None, None, None, None, TRUE)
            /\ pre = g

\* ======================= board.py, constraints.py =======================
\* constraints.py, lines 24-30: row r of the pattern is row 1 rotated r - 1 places
COLORED_WALL_PATTERN ==
    [r \in Rows |-> [c \in Rows |-> ((c - r + GridSize) % GridSize) + 1]]

\* PlayerBoard(): every pattern line empty, no wall cell filled
NewBoard ==
    [pattern_lines |-> [r \in Rows |-> [i \in 1..r |-> None]],
     wall |-> [r \in Rows |-> [c \in Rows |-> FALSE]]]

\* list.index(color)
IndexOf(s, x) == CHOOSE i \in 1..Len(s) : s[i] = x /\ \A j \in 1..(i - 1) : s[j] # x

\* board.py, lines 34-36
get_wall_column_for_color(row, color) == IndexOf(COLORED_WALL_PATTERN[row], color)

\* variant: the wall is not looked at
can_place_color_in_pattern_line_nowall(board, row, color) ==
    LET line == board.pattern_lines[row]
        filled == SelectSeq(line, LAMBDA tile : tile # None)
    IN  IF filled # << >> /\ filled[1] # color THEN FALSE
        ELSE TRUE

\* board.py, lines 38-53
can_place_color_in_pattern_line(board, row, color) ==
    LET line == board.pattern_lines[row]
        filled == SelectSeq(line, LAMBDA tile : tile # None)
        col == get_wall_column_for_color(row, color)
    IN  IF filled # << >> /\ filled[1] # color THEN FALSE
        ELSE IF board.wall[row][col] THEN FALSE
        ELSE TRUE

\* the pattern lines a board can hold: line r has r places, its tiles are of one colour
PatternLines(r) ==
    { line \in [1..r -> {None} \cup COLORS] :
          \A i, j \in 1..r : (line[i] # None /\ line[j] # None) => line[i] = line[j] }

Boards ==
    { b \in [pattern_lines : [Rows -> UNION { PatternLines(r) : r \in Rows }],
             wall : [Rows -> [Rows -> BOOLEAN]]] :
          \A r \in Rows : b.pattern_lines[r] \in PatternLines(r) }

\* a call of can_place_color_in_pattern_line on the board
CanPlace(row, color) ==
    /\ last' = Call("can_place", None, None, color, row,
                    can_place_color_in_pattern_line(player_board, row, color))
    /\ UNCHANGED <<gameVars, starting_player_marker_taken, oracle_fault, player_board,
                   round_drafts, pc, pre>>

BoardInit == GameInit /\ player_board \in Boards

BoardNext == \E row \in Rows, color \in COLORS : CanPlace(row, color)

\* a PlayerBoard of any content and the questions asked of it
BoardSpec == BoardInit /\ [][BoardNext]_vars

Init == GameInit /\ player_board = NewBoard

Next ==
    \/ \E k \in (-1)..NumFactories, color \in COLORS, row \in Rows : take_from_factory(k, color, row)
    \/ \E color \in COLORS, row \in Rows : take_from_center(color, row)
    \/ OtherCommand
    \/ EndRound

Spec == Init /\ [][Next]_vars

\* the Prolog engine stops answering a query end_round is about to make
OracleFault ==
    /\ pc = "draft"
    /\ is_round_empty
    /\ oracle_fault = NoFault
    /\ pre' = Snapshot
    /\ \E mode \in {"nocol", "noscore"}, row \in Rows, color \in COLORS :
          /\ \E p \in Players : pattern[p][row] = [color |-> color, count |-> ROW_CAP[row]]
          /\ oracle_fault' = [mode |-> mode, row |-> row, color |-> color]
          /\ last' = Call("oracle_fault", None, None, color, row, TRUE)
    /\ UNCHANGED <<gameVars, starting_player_marker_taken, player_board, round_drafts, pc>>

FaultNext == Next \/ OracleFault

\* the game loop with an oracle that may fall silent
FaultSpec == Init /\ [][FaultNext]_vars

\* ======================= agents.py =======================
\* Counter(f).items(): the colours of a list in order of first occurrence
RECURSIVE DistinctInOrder(_)
DistinctInOrder(s) ==
    IF s = << >> THEN << >>
    ELSE << s[1] >> \o DistinctInOrder(Without(Tail(s), s[1]))

\* the tuples ('F', k, color, row) and ('C', color, row); k is -1 for the center
Action(kind, k, color, row) == [kind |-> kind, k |-> k, color |-> color, row |-> row]

NoAction == Action("none", -1, None, None)

\* agents.py, lines 26-29
agent_legal_wall_target(grid, row, color) ==
    LET answers == legal_placement(row, color, grid)
    IN  Len(answers) >= 0

\* agents.py, lines 16-24
agent_prolog_score(grid, row, color) ==
    LET col_res == wall_column_for(row, color)
        sc_res == score_for_placement(grid, row, color)
    IN  IF col_res = << >> THEN 0
        ELSE IF sc_res = << >> THEN 0
        ELSE sc_res[1]

\* variant: the penalty is read off from the floor length after the action
floor_penalty_for_overflow_after(current_floor_len, overflow) ==
    IF overflow <= 0 THEN 0
    ELSE LET start == current_floor_len + overflow
             end == Min(current_floor_len + overflow + overflow, Len(FLOOR_PENALTIES))
         IN  SumSeq(SubSeq(FLOOR_PENALTIES, start + 1, end))

\* agents.py, lines 9-14
floor_penalty_for_overflow(current_floor_len, overflow) ==
    IF overflow <= 0 THEN 0
    ELSE LET start == current_floor_len
             end == Min(current_floor_len + overflow, Len(FLOOR_PENALTIES))
         IN  SumSeq(SubSeq(FLOOR_PENALTIES, start + 1, end))

\* the loops "for color in Counter(f): for row in 1..5" over one source
source_pairs(kind, k, f) ==
    LET cs == DistinctInOrder(f)
    IN  [j \in 1..(Len(cs) * GridSize) |->
            Action(kind, k, cs[((j - 1) \div GridSize) + 1], ((j - 1) % GridSize) + 1)]

\* variant: the colour the target row already holds is not looked at
source_actions_anyrow(g, pid, kind, k, f) ==
    SelectSeq(source_pairs(kind, k, f),
              LAMBDA a : agent_legal_wall_target(g.wall[pid], a.row, a.color))

\* lines 183-191: the pairs of one source that pass both tests
source_actions(g, pid, kind, k, f) ==
    SelectSeq(source_pairs(kind, k, f),
              LAMBDA a : /\ g.pattern[pid][a.row].color \in {None, a.color}
                         /\ agent_legal_wall_target(g.wall[pid], a.row, a.color))

RECURSIVE factory_actions(_, _, _)
factory_actions(g, pid, k) ==
    IF k >= NumFactories THEN << >>
    ELSE source_actions(g, pid, "F", k, g.factories[k]) \o factory_actions(g, pid, k + 1)

\* MiniMaxAgent._legal_actions, and the same loops in RandomAgent.choose
legal_actions(g, pid) ==
    factory_actions(g, pid, 0) \o source_actions(g, pid, "C", -1, g.center)

\* the tiles an action would take
action_count(g, a) ==
    IF a.kind = "F" THEN CountOf(g.factories[a.k], a.color) ELSE CountOf(g.center, a.color)

\* GreedyAgent.choose, lines 120-131: the value of one candidate
greedy_value(g, pid, a) ==
    LET line == g.pattern[pid][a.row]
        available == ROW_CAP[a.row] - line.count
        cnt == action_count(g, a)
        to_line == Min(available, cnt)
        overflow == cnt - to_line
    IN  to_line
        + (IF to_line = available /\ line.color \in {None, a.color}
           THEN agent_prolog_score(g.wall[pid], a.row, a.color) ELSE 0)
        + floor_penalty_for_overflow(Len(g.floor[pid]), overflow)

\* GreedyAgent.choose, lines 109-154: the candidates with their values
greedy_candidates(g, pid) ==
    LET acts == SelectSeq(legal_actions(g, pid),
                          LAMBDA a : ROW_CAP[a.row] - g.pattern[pid][a.row].count > 0)
    IN  [i \in 1..Len(acts) |-> [action |-> acts[i], val |-> greedy_value(g, pid, acts[i])]]

\* variant: a candidate is put in front of the candidates of equal value
insert_desc_unstable(sorted, c) ==
    LET n == Cardinality({i \in 1..Len(sorted) : sorted[i].val > c.val})
    IN  SubSeq(sorted, 1, n) \o << c >> \o SubSeq(sorted, n + 1, Len(sorted))

\* list.sort(key, reverse=True) is stable: a candidate goes behind all
\* candidates of greater or equal value
insert_desc(sorted, c) ==
    LET n == Cardinality({i \in 1..Len(sorted) : sorted[i].val >= c.val})
    IN  SubSeq(sorted, 1, n) \o << c >> \o SubSeq(sorted, n + 1, Len(sorted))

RECURSIVE sort_desc(_, _)
sort_desc(cands, sorted) ==
    IF cands = << >> THEN sorted
    ELSE sort_desc(Tail(cands), insert_desc(sorted, cands[1]))

\* GreedyAgent.choose, lines 156-164
greedy_choose(g, pid) ==
    LET candidates == sort_desc(greedy_candidates(g, pid), << >>)
    IN  IF candidates = << >> THEN NoAction ELSE candidates[1].action

\* the engine call MiniMaxAgent makes on its clone: a draft by pid
apply_action(g, pid, a) ==
    LET src == IF a.kind = "F" THEN g.factories[a.k] ELSE g.center
        ok == /\ Contains(src, a.color)
              /\ g.pattern[pid][a.row].color \in {None, a.color}
              /\ legal_wall_target(a.row, a.color, g.wall[pid])
        pl == place_into_line(g.pattern[pid][a.row], ROW_CAP[a.row], a.color,
                              CountOf(src, a.color))
        g1 == IF a.kind = "F"
              THEN [g EXCEPT !.factories[a.k] = << >>,
                             !.center = @ \o factory_rest(src, a.color)]
              ELSE [g EXCEPT !.center = Without(src, a.color)]
    IN  IF ~ok THEN g
        ELSE [g1 EXCEPT !.pattern[pid][a.row] = pl.line,
                        !.floor[pid] = @ \o Repeat(a.color, pl.overflow),
                        !.current = (g.current + 1) % NumPlayers]

Max(a, b) == IF a > b THEN a ELSE b

RECURSIVE MaxSeq(_)
MaxSeq(s) == IF Len(s) = 1 THEN s[1] ELSE Max(s[1], MaxSeq(Tail(s)))

\* MiniMaxAgent.evaluate, lines 172-175
evaluate(g, pid) ==
    LET others == SelectSeq([i \in 1..NumPlayers |-> i - 1], LAMBDA i : i # pid)
        scores == [j \in 1..Len(others) |-> g.score[others[j]]]
    IN  g.score[pid] - (IF scores # << >> THEN MaxSeq(scores) ELSE 0)

\* variant: the candidate is applied to the game itself, not to a copy
RECURSIVE minimax_loop_aliased(_, _, _, _)
minimax_loop_aliased(st, pid, actions, i) ==
    IF i > Min(Len(actions), MaxCandidates) THEN st
    ELSE LET clone == apply_action(st.game, pid, actions[i])
             v == evaluate(clone, pid)
             better == st.best_idx = 0 \/ v > st.best_val
         IN  minimax_loop_aliased([game |-> clone,
                                   best_val |-> IF better THEN v ELSE st.best_val,
                                   best_idx |-> IF better THEN i ELSE st.best_idx],
                                  pid, actions, i + 1)

\* variant: a later candidate of equal value replaces the best one
RECURSIVE minimax_loop_lastbest(_, _, _, _)
minimax_loop_lastbest(st, pid, actions, i) ==
    IF i > Min(Len(actions), MaxCandidates) THEN st
    ELSE LET clone == apply_action(st.game, pid, actions[i])
             v == evaluate(clone, pid)
             better == st.best_idx = 0 \/ v >= st.best_val
         IN  minimax_loop_lastbest([game |-> st.game,
                                    best_val |-> IF better THEN v ELSE st.best_val,
                                    best_idx |-> IF better THEN i ELSE st.best_idx],
                                   pid, actions, i + 1)

\* MiniMaxAgent.choose, lines 210-217: the loop over actions[:12];
\* st = [game, best_val, best_idx], best_idx 0 for None
RECURSIVE minimax_loop(_, _, _, _)
minimax_loop(st, pid, actions, i) ==
    IF i > Min(Len(actions), MaxCandidates) THEN st
    ELSE LET clone == apply_action(st.game, pid, actions[i])
             v == evaluate(clone, pid)
             better == st.best_idx = 0 \/ v > st.best_val
         IN  minimax_loop([game |-> st.game,
                           best_val |-> IF better THEN v ELSE st.best_val,
                           best_idx |-> IF better THEN i ELSE st.best_idx],
                          pid, actions, i + 1)

\* MiniMaxAgent.choose, lines 205-219: the game afterwards and the action returned
minimax_choose(g, pid) ==
    LET actions == legal_actions(g, pid)
        st == minimax_loop([game |-> g, best_val |-> 0, best_idx |-> 0], pid, actions, 1)
    IN  [game |-> st.game,
         action |-> IF actions = << >> THEN NoAction ELSE actions[st.best_idx]]

ChoiceCall(op, pid, a) == Call(op, pid, a.k, a.color, a.row, a # NoAction)

\* an agent is asked for a move when a turn starts: after construction, after
\* an accepted draft and after end_round
AgentTurn ==
    /\ pc = "draft"
    /\ \/ last.op \in {"init", "end_round"}
       \/ last.op \in {"factory", "center"} /\ last.ok

\* variant: the first enumerated action is always returned
RandomChoose_first(pid) ==
    /\ AgentTurn
    /\ pre' = Snapshot
    /\ UNCHANGED <<starting_player_marker_taken, oracle_fault, player_board, round_drafts>>
    /\ LET actions == legal_actions(Snapshot, pid)
       IN  IF actions = << >>
           THEN last' = ChoiceCall("random", pid, NoAction)
           ELSE last' = ChoiceCall("random", pid, actions[1])
    /\ UNCHANGED <<gameVars, pc>>

\* RandomAgent.choose, lines 66-101: any of the enumerated actions
RandomChoose(pid) ==
    /\ AgentTurn
    /\ pre' = Snapshot
    /\ UNCHANGED <<starting_player_marker_taken, oracle_fault, player_board, round_drafts>>
    /\ LET actions == legal_actions(Snapshot, pid)
       IN  IF actions = << >>
           THEN last' = ChoiceCall("random", pid, NoAction)
           ELSE \E idx \in 1..Len(actions) : last' = ChoiceCall("random", pid, actions[idx])
    /\ UNCHANGED <<gameVars, pc>>

\* GreedyAgent.choose, lines 105-164
GreedyChoose(pid) ==
    /\ AgentTurn
    /\ pre' = Snapshot
    /\ UNCHANGED <<starting_player_marker_taken, oracle_fault, player_board, round_drafts>>
    /\ last' = ChoiceCall("greedy", pid, greedy_choose(Snapshot, pid))
    /\ UNCHANGED <<gameVars, pc>>

\* MiniMaxAgent.choose, lines 205-219
MinimaxChoose(pid) ==
    /\ AgentTurn
    /\ pre' = Snapshot
    /\ UNCHANGED <<starting_player_marker_taken, oracle_fault, player_board, round_drafts>>
    /\ LET res == minimax_choose(Snapshot, pid)
       IN  /\ last' = ChoiceCall("minimax", pid, res.action)
           /\ factories' = res.game.factories
           /\ center' = res.game.center
           /\ bag' = res.game.bag
           /\ discard' = res.game.discard
           /\ rng' = res.game.rng
           /\ pattern' = res.game.pattern
           /\ wall' = res.game.wall
           /\ score' = res.game.score
           /\ floor' = res.game.floor
           /\ current' = res.game.current
    /\ UNCHANGED pc

\* ======================= agent_goal.py =======================
\* agent_goal.py, lines 30-33
goal_legal_wall_target(grid, row, color) ==
    LET answers == legal_placement(row, color, grid)
    IN  Len(answers) >= 0

\* agent_goal.py, lines 20-28
goal_prolog_score(grid, row, color) ==
    LET col_res == wall_column_for(row, color)
        sc_res == score_for_placement(grid, row, color)
    IN  IF col_res = << >> THEN 0
        ELSE IF sc_res = << >> THEN 0
        ELSE sc_res[1]

\* agent_goal.py, lines 13-18
goal_floor_penalty_for_overflow(current_floor_len, overflow) ==
    IF overflow <= 0 THEN 0
    ELSE LET start == current_floor_len
             end == Min(current_floor_len + overflow, Len(FLOOR_PENALTIES))
         IN  SumSeq(SubSeq(FLOOR_PENALTIES, start + 1, end))

\* GoalAgent.choose, lines 56-66: the value of one candidate
goal_value(g, pid, a) ==
    LET line == g.pattern[pid][a.row]
        available == ROW_CAP[a.row] - line.count
        cnt == action_count(g, a)
        to_line == Min(available, cnt)
        overflow == cnt - to_line
    IN  to_line
        + (IF to_line = available /\ line.color \in {None, a.color}
           THEN goal_prolog_score(g.wall[pid], a.row, a.color) ELSE 0)
        + goal_floor_penalty_for_overflow(Len(g.floor[pid]), overflow)

\* GoalAgent.choose, lines 44-59: the pairs of one source that are scored
goal_source_candidates(g, pid, kind, k, f) ==
    SelectSeq(source_pairs(kind, k, f),
              LAMBDA a : /\ g.pattern[pid][a.row].color \in {None, a.color}
                         /\ goal_legal_wall_target(g.wall[pid], a.row, a.color)
                         /\ ~(ROW_CAP[a.row] - g.pattern[pid][a.row].count <= 0))

RECURSIVE goal_factory_candidates(_, _, _)
goal_factory_candidates(g, pid, k) ==
    IF k >= NumFactories THEN << >>
    ELSE goal_source_candidates(g, pid, "F", k, g.factories[k])
            \o goal_factory_candidates(g, pid, k + 1)

goal_candidates(g, pid) ==
    goal_factory_candidates(g, pid, 0) \o goal_source_candidates(g, pid, "C", -1, g.center)

\* variant: a candidate as good as the best one replaces it
RECURSIVE goal_loop_lastbest(_, _, _, _)
goal_loop_lastbest(st, g, pid, cands) ==
    IF cands = << >> THEN st
    ELSE LET val == goal_value(g, pid, cands[1])
         IN  goal_loop_lastbest(IF st.best_action = NoAction \/ val >= st.best_val
                                THEN [best_val |-> val, best_action |-> cands[1]]
                                ELSE st,
                                g, pid, Tail(cands))

\* lines 67-69 and 95-97: a candidate replaces the best one only when it is
\* strictly better; st = [best_val, best_action], best_action NoAction for None
RECURSIVE goal_loop(_, _, _, _)
goal_loop(st, g, pid, cands) ==
    IF cands = << >> THEN st
    ELSE LET val == goal_value(g, pid, cands[1])
         IN  goal_loop(IF st.best_action = NoAction \/ val > st.best_val
                       THEN [best_val |-> val, best_action |-> cands[1]]
                       ELSE st,
                       g, pid, Tail(cands))

\* GoalAgent.choose, lines 35-99
goal_choose(g, pid) ==
    goal_loop([best_val |-> 0, best_action |-> NoAction], g, pid, goal_candidates(g, pid)).best_action

GoalChoose(pid) ==
    /\ AgentTurn
    /\ pre' = Snapshot
    /\ UNCHANGED <<starting_player_marker_taken, oracle_fault, player_board, round_drafts>>
    /\ last' = ChoiceCall("goal", pid, goal_choose(Snapshot, pid))
    /\ UNCHANGED <<gameVars, pc>>

\* the game loop with agents asked for a move before a draft
AgentNext ==
    \/ Next
    \/ \E pid \in Players : GoalChoose(pid)
    \/ \E pid \in Players : RandomChoose(pid)
    \/ \E pid \in Players : GreedyChoose(pid)
    \/ \E pid \in Players : MinimaxChoose(pid)

AgentSpec == Init /\ [][AgentNext]_vars

\* ======================= properties =======================
IsDraft(c) == c.op \in {"factory", "center"}

\* the list the last draft took its tiles from, as it was before the draft
DraftSource ==
    IF last.op = "factory" THEN pre.factories[last.k] ELSE pre.center

TotalTiles ==
    SumSeq([i \in 1..NumFactories |-> Len(factories[i - 1])])
    + Len(center) + Len(bag) + Len(discard)
    + SumSeq([i \in 1..NumPlayers |->
                SumSeq([r \in Rows |-> pattern[i - 1][r].count]) + Len(floor[i - 1])])

\* C1: in every reachable state the tiles in the factories, the center, the
\* bag, the discard, all pattern lines and all floors add up to the initial
\* supply (colours x tiles per colour; 5 x 20 = 100 in the program).
TileConservation == TotalTiles = NumColors * TilesPerColor

\* C2: a rejected draft (take_from_factory or take_from_center returned
\* False) leaves every field of the game as it was before the call.
DraftRejectAtomic ==
    (IsDraft(last) /\ ~last.ok) => Snapshot = pre

DraftRejectAtomic_Witness ==
    /\ last.op = "factory" /\ ~last.ok
    /\ last.k \in FactoryIdx
    /\ Contains(pre.factories[last.k], last.color)
    /\ Without(pre.factories[last.k], last.color) # << >>
    /\ pre.pattern[last.pid][last.row].color \notin {None, last.color}

\* C3: a draft of colour c into row r is rejected whenever the oracle does
\* not report (r, c) legal against the player's wall as it is at the call.
OracleIllegalRejected ==
    (IsDraft(last) /\ legal_placement(last.row, last.color, pre.wall[last.pid]) = << >>)
        => ~last.ok

\* C4: after a successful take_from_factory(pid, k, c, row) factory k is
\* empty and the center holds what it held plus exactly the tiles of
\* factory k that are not of colour c.
FactoryAllOrNothing ==
    (last.op = "factory" /\ last.ok) =>
        /\ factories[last.k] = << >>
        /\ Len(center) = Len(pre.center) + Len(pre.factories[last.k])
                            - CountOf(pre.factories[last.k], last.color)
        /\ \A d \in COLORS :
              CountOf(center, d) =
                 CountOf(pre.center, d)
                 + (IF d = last.color THEN 0 ELSE CountOf(pre.factories[last.k], d))

FactoryAllOrNothing_Witness ==
    /\ last.op = "factory" /\ last.ok
    /\ \E d \in COLORS : d # last.color /\ Contains(pre.factories[last.k], d)
    /\ center # << >>
    /\ ~Contains(center, last.color)

\* C5: a successful draft of n tiles of colour c into row r holding k tiles
\* leaves min(r, k + n) tiles in the row and appends the other
\* n - (min(r, k + n) - k) tiles, all of colour c, to the player's floor;
\* with k = r all n tiles go to the floor.
DraftFillsThenOverflows ==
    (IsDraft(last) /\ last.ok) =>
        LET n == CountOf(DraftSource, last.color)
            k == pre.pattern[last.pid][last.row].count
            r == last.row
            kept == Min(r, k + n) - k
        IN  /\ pattern[last.pid][r].count = Min(r, k + n)
            /\ floor[last.pid] = pre.floor[last.pid] \o Repeat(last.color, n - kept)
            /\ (k = r => Len(floor[last.pid]) = Len(pre.floor[last.pid]) + n)

DraftFillsThenOverflows_Witness ==
    /\ IsDraft(last) /\ last.ok
    /\ pre.pattern[last.pid][last.row].count = last.row
    /\ CountOf(DraftSource, last.color) >= 2
    /\ Len(floor[last.pid]) = Len(pre.floor[last.pid]) + CountOf(DraftSource, last.color)

\* C6: a draft of colour c into a row holding another colour d is rejected,
\* and a row's colour, once set, changes only when an end_round commit
\* clears that row.
RowColorStable ==
    /\ (IsDraft(last) /\ pre.pattern[last.pid][last.row].color \notin {None, last.color})
          => ~last.ok
    /\ \A p \in Players, r \in Rows :
          (pre.pattern[p][r].color # None /\ pattern[p][r].color # pre.pattern[p][r].color)
             => /\ last.op = "end_round"
                /\ pre.pattern[p][r].count = ROW_CAP[r]
                /\ pattern[p][r] = [color |-> None, count |-> 0]

RowColorStable_Witness ==
    /\ last.op = "center" /\ ~last.ok
    /\ Contains(pre.center, last.color)
    /\ pre.pattern[last.pid][last.row].color \notin {None, last.color}
    /\ pattern[last.pid][last.row].color = pre.pattern[last.pid][last.row].color

\* C7: every row r of every player holds between 0 and r tiles, and its
\* colour is unset exactly when it holds none.
RowWithinCapacity ==
    \A p \in Players, r \in Rows :
        /\ pattern[p][r].count >= 0
        /\ pattern[p][r].count <= r
        /\ (pattern[p][r].color = None) <=> (pattern[p][r].count = 0)

RowWithinCapacity_Witness ==
    /\ IsDraft(last) /\ last.ok
    /\ last.row >= 2
    /\ pattern[last.pid][last.row].count = last.row
    /\ Len(floor[last.pid]) > Len(pre.floor[last.pid])

\* C8: a wall cell that is filled stays filled in every later state.
WallMonotone ==
    [][\A p \in Players, r \in Rows, c \in Rows :
          wall[p][r][c] = 1 => wall'[p][r][c] = 1]_vars

WallMonotone_Witness ==
    /\ last.op = "end_round"
    /\ \E p \in Players, r \in Rows, c \in Rows, d \in Rows :
          /\ c # d
          /\ pre.wall[p][r][c] = 1 /\ wall[p][r][c] = 1
          /\ pre.wall[p][r][d] = 0 /\ wall[p][r][d] = 1

\* ---- what one commit pass must add to a player's score, row by row ----
RowComplete(p, r) ==
    pre.pattern[p][r].count = ROW_CAP[r] /\ pre.pattern[p][r].color # None

ColumnOf(p, r) == wall_column_for(r, pre.pattern[p][r].color)[1]

\* the wall of p when the pass reaches row r: the rows above are already placed
WallBefore(p, r) ==
    [rr \in Rows |-> [cc \in Rows |->
        IF pre.wall[p][rr][cc] = 1 \/ (rr < r /\ RowComplete(p, rr) /\ cc = ColumnOf(p, rr))
        THEN 1 ELSE 0]]

RowScore(p, r) ==
    IF RowComplete(p, r)
    THEN score_for_placement(WallBefore(p, r), r, pre.pattern[p][r].color)[1]
    ELSE 0

RowScores(p) == SumSeq([r \in Rows |-> RowScore(p, r)])

\* C9: when end_round runs with a player's row r full of colour c, the wall
\* cell (r, column of c) is filled afterwards, the row is empty and
\* colourless, and the score has grown by the oracle's score of that row.
CommitCompletedRow ==
    (last.op = "end_round") =>
        \A p \in Players :
            /\ \A r \in Rows :
                  RowComplete(p, r) =>
                      /\ wall[p][r][ColumnOf(p, r)] = 1
                      /\ pattern[p][r] = [color |-> None, count |-> 0]
            /\ score[p] = pre.score[p] + RowScores(p) + floor_penalty(pre.floor[p])

CommitCompletedRow_Witness ==
    /\ last.op = "end_round"
    /\ \E p \in Players, r \in Rows :
          /\ RowComplete(p, r)
          /\ RowScore(p, r) >= 2
          /\ pre.score[p] # 0
          /\ wall[p][r][ColumnOf(p, r)] = 1

\* C10: end_round changes each score, besides the row scores, by the sum of
\* the first min(len(floor), 7) entries of [-1,-1,-2,-2,-2,-3,-3] (never
\* less than -14), and leaves every floor empty.
PenaltyTable == <<0, -1, -2, -4, -6, -8, -11, -14>>

FloorPenaltyCapped ==
    (last.op = "end_round") =>
        \A p \in Players :
            LET n == Len(pre.floor[p])
                delta == score[p] - pre.score[p] - RowScores(p)
            IN  /\ delta = PenaltyTable[(IF n > 7 THEN 7 ELSE n) + 1]
                /\ delta >= -14
                /\ floor[p] = << >>

FloorPenaltyCapped_Witness ==
    /\ last.op = "end_round"
    /\ \E p \in Players :
          /\ Len(pre.floor[p]) > 7
          /\ floor[p] = << >>
          /\ score[p] - pre.score[p] - RowScores(p) = -14

\* C11: after every end_round commit every player's score is at least 0.
ScoreNeverNegative ==
    (last.op = "end_round") => \A p \in Players : score[p] >= 0

\* C12: in every drafting state with a tile left in a factory or the
\* center, the current player has a draft that the engine accepts.
CurrentCanDraft ==
    (pc = "draft" /\ ~is_round_empty) =>
        \/ \E k \in FactoryIdx, c \in COLORS, r \in Rows : factory_accepts(current, k, c, r)
        \/ \E c \in COLORS, r \in Rows : center_accepts(current, c, r)

PoolTiles ==
    SumSeq([i \in 1..NumFactories |-> Len(factories[i - 1])]) + Len(center)

\* C13: is_round_empty (both versions) is true exactly when no tile is left
\* in any factory nor in the center.
RoundEmptyExact ==
    /\ is_round_empty <=> (PoolTiles = 0)
    /\ is_round_empty_fullui <=> (PoolTiles = 0)

RoundEmptyExact_Witness ==
    /\ IsDraft(last) /\ last.ok
    /\ \A i \in FactoryIdx : factories[i] = << >>
    /\ center # << >>
    /\ ~is_round_empty

\* C14: a successful draft hands the turn to the next player in order; a
\* rejected draft or another command leaves the turn where it was.
TurnAdvancesOnSuccess ==
    /\ (IsDraft(last) /\ last.ok) =>
          /\ current = (pre.current + 1) % NumPlayers
          /\ current # pre.current
          /\ last.pid = pre.current
    /\ ((IsDraft(last) /\ ~last.ok) \/ last.op = "other") => current = pre.current
    /\ next_player = next_player_fullui

TurnAdvancesOnSuccess_Witness ==
    /\ last.op = "center" /\ last.ok
    /\ pre.current = 1
    /\ current = 0

FullRowExists == \E p \in Players, r \in Rows : \A c \in Rows : wall[p][r][c] = 1

\* C15: check_end_game is true exactly when some player has a wall row with
\* every cell filled; when that holds after an end_round the loop of play()
\* stops, and no command is executed in any later state.
GameEndsOnFullRow ==
    /\ [](check_end_game(wall) <=> FullRowExists)
    /\ []((last.op = "end_round" /\ FullRowExists) => pc = "over")
    /\ [](pc = "over" => (last.op = "end_round" /\ FullRowExists))
    /\ [][pc # "over"]_vars

GameEndsOnFullRow_Witness ==
    /\ pc = "over"
    /\ last.op = "end_round"
    /\ FullRowExists
    /\ ~(\E p \in Players, r \in Rows : \A c \in Rows : pre.wall[p][r][c] = 1)

\* ---- what a refill starts from: the bag and the discard after the commits ----
IsRefill == last.op \in {"init", "end_round"}

BagBefore == IF last.op = "init" THEN InitBag ELSE pre.bag

CommittedTo(c) ==
    IF last.op = "init" THEN 0
    ELSE SumSeq([i \in 1..NumPlayers |->
            SumSeq([r \in Rows |->
                IF RowComplete(i - 1, r) /\ pre.pattern[i - 1][r].color = c
                THEN ROW_CAP[r] - 1 ELSE 0])])

DiscardBefore(c) ==
    IF last.op = "init" THEN 0 ELSE CountOf(pre.discard, c) + CommittedTo(c)

DiscardBeforeLen == SumSeq([c \in COLORS |-> DiscardBefore(c)])

InFactories(c) == SumSeq([i \in 1..NumFactories |-> CountOf(factories[i - 1], c)])

Needed == FactorySize * NumFactories

\* C16: a refill that finds the bag empty moves the whole discard into the
\* bag and goes on drawing; when both are empty it stops, and the factory it
\* was filling and all later ones hold fewer than 4 tiles.  Every tile of
\* the bag and the discard is afterwards in exactly one of factories, bag
\* and discard.  GameState.refill_factories gives the same result.
RefillReshuffles ==
    IsRefill =>
        LET B == Len(BagBefore)
            D == DiscardBeforeLen
        IN  /\ \A c \in COLORS :
                  InFactories(c) + CountOf(bag, c) + CountOf(discard, c)
                     = CountOf(BagBefore, c) + DiscardBefore(c)
            /\ \A i \in FactoryIdx :
                  Len(factories[i]) =
                     Min(FactorySize, IF B + D > FactorySize * i THEN B + D - FactorySize * i ELSE 0)
            /\ (B < Needed) => discard = << >>
            /\ (B >= Needed) =>
                  /\ bag = SubSeq(BagBefore, 1, B - Needed)
                  /\ \A c \in COLORS : CountOf(discard, c) = DiscardBefore(c)
            /\ (B + D < Needed) => (bag = << >> /\ discard = << >>)
            /\ (last.op = "end_round") =>
                  LET g0 == [commit_players(pre, 0) EXCEPT !.center = << >>]
                  IN  gs_refill_factories(g0, 0) = refill_factories(g0, 0)

RefillReshuffles_Witness ==
    /\ last.op = "end_round"
    /\ Len(pre.bag) > 0
    /\ Len(pre.bag) < FactorySize
    /\ DiscardBeforeLen >= 2
    /\ Len(factories[0]) = FactorySize
    /\ factories[1] = << >>
    /\ discard = << >>


\* ---------------- agents ----------------
ChosenAction(c) == Action(IF c.k = -1 THEN "C" ELSE "F", c.k, c.color, c.row)

SourceOf(g, a) == IF a.kind = "F" THEN g.factories[a.k] ELSE g.center

\* the actions the oracle allows: source holds the colour, the row is
\* colourless or of the colour, the oracle reports the pair legal
OracleLegalActions(g, pid) ==
    { a \in { Action("F", k, c, r) : k \in FactoryIdx, c \in COLORS, r \in Rows }
            \cup { Action("C", -1, c, r) : c \in COLORS, r \in Rows } :
        /\ Contains(SourceOf(g, a), a.color)
        /\ g.pattern[pid][a.row].color \in {None, a.color}
        /\ legal_placement(a.row, a.color, g.wall[pid]) # << >> }

\* C17: the actions RandomAgent.choose and MiniMaxAgent._legal_actions
\* enumerate for a player are exactly the actions whose source holds the
\* colour, whose row is colourless or of the colour, and whose (row, colour)
\* the oracle reports legal against the player's wall.
EnumeratedIffOracleLegal ==
    (last.op \in {"random", "minimax"}) =>
        LET actions == legal_actions(pre, last.pid)
        IN  { actions[i] : i \in 1..Len(actions) } = OracleLegalActions(pre, last.pid)

\* C19: after MiniMaxAgent.choose the factories, center, bag, discard,
\* current player and every player's pattern lines, wall, floor and score
\* are what they were before the call.
MinimaxLeavesGame ==
    (last.op = "minimax") => Snapshot = pre

MinimaxLeavesGame_Witness ==
    /\ last.op = "minimax"
    /\ last.ok
    /\ Len(legal_actions(pre, last.pid)) >= 2
    /\ \A i \in 1..Len(legal_actions(pre, last.pid)) :
           apply_action(pre, last.pid, legal_actions(pre, last.pid)[i]) # pre
    /\ Snapshot = pre

\* position of the first occurrence of a colour in a list
FirstPos(s, c) == CHOOSE i \in 1..Len(s) : s[i] = c /\ \A j \in 1..(i - 1) : s[j] # c

\* enumeration order: factories by index, then the center; colours in
\* first-occurrence order; rows ascending
EnumeratedBefore(g, a, b) ==
    LET sa == IF a.kind = "C" THEN NumFactories ELSE a.k
        sb == IF b.kind = "C" THEN NumFactories ELSE b.k
        pa == FirstPos(SourceOf(g, a), a.color)
        pb == FirstPos(SourceOf(g, b), b.color)
    IN  \/ sa < sb
        \/ sa = sb /\ pa < pb
        \/ sa = sb /\ pa = pb /\ a.row < b.row

\* C20: GreedyAgent.choose returns a candidate of maximal value, and no
\* candidate of the same value comes before it in enumeration order.
GreedyFirstMax ==
    (last.op = "greedy" /\ last.ok) =>
        LET cands == greedy_candidates(pre, last.pid)
            chosen == ChosenAction(last)
        IN  \E i \in 1..Len(cands) :
               /\ cands[i].action = chosen
               /\ \A j \in 1..Len(cands) :
                      /\ cands[j].val <= cands[i].val
                      /\ (cands[j].val = cands[i].val /\ j # i)
                            => EnumeratedBefore(pre, chosen, cands[j].action)

GreedyFirstMax_Witness ==
    /\ last.op = "greedy"
    /\ last.ok
    /\ LET cands == greedy_candidates(pre, last.pid)
           chosen == ChosenAction(last)
       IN  \E i, j, l \in 1..Len(cands) :
              /\ cands[i].action = chosen
              /\ j < i /\ cands[j].val < cands[i].val
              /\ l > i /\ cands[l].val = cands[i].val


\* the greedy value as the rule states it: n tiles into a row with a free
\* slots, the player's floor holding f tiles
StatedPenalty(f, overflow) ==
    LET charged == { i \in 1..Len(FLOOR_PENALTIES) : i > f /\ i <= f + overflow }
    IN  IF charged = {} THEN 0
        ELSE SumSeq([j \in 1..Cardinality(charged) |-> FLOOR_PENALTIES[f + j]])

StatedValue(g, pid, act) ==
    LET a == ROW_CAP[act.row] - g.pattern[pid][act.row].count
        n == CountOf(SourceOf(g, act), act.color)
        m == IF a < n THEN a ELSE n
        answers == score_for_placement(g.wall[pid], act.row, act.color)
        oracle == IF answers = << >> THEN 0 ELSE answers[1]
    IN  m + (IF m = a THEN oracle ELSE 0) + StatedPenalty(Len(g.floor[pid]), n - m)

\* C21: every candidate GreedyAgent.choose scores has the value
\* min(a, n) + (oracle score if the row is completed) + penalty, the penalty
\* being the schedule summed over floor positions f+1 .. f+overflow (cut at
\* 7); the penalty is never positive, and 0 without overflow or with f >= 7.
GreedyValueFormula ==
    (last.op = "greedy") =>
        LET cands == greedy_candidates(pre, last.pid)
            f == Len(pre.floor[last.pid])
        IN  \A i \in 1..Len(cands) :
               LET act == cands[i].action
                   a == ROW_CAP[act.row] - pre.pattern[last.pid][act.row].count
                   n == CountOf(SourceOf(pre, act), act.color)
                   overflow == IF n > a THEN n - a ELSE 0
               IN  /\ cands[i].val = StatedValue(pre, last.pid, act)
                   /\ floor_penalty_for_overflow(f, overflow) <= 0
                   /\ (overflow = 0 \/ f >= Len(FLOOR_PENALTIES))
                         => floor_penalty_for_overflow(f, overflow) = 0
                   /\ floor_penalty_for_overflow(f, overflow) = StatedPenalty(f, overflow)

GreedyValueFormula_Witness ==
    /\ last.op = "greedy"
    /\ last.ok
    /\ LET cands == greedy_candidates(pre, last.pid)
           f == Len(pre.floor[last.pid])
       IN  /\ f > 0 /\ f < Len(FLOOR_PENALTIES)
           /\ \E i \in 1..Len(cands) :
                 LET act == cands[i].action
                     a == ROW_CAP[act.row] - pre.pattern[last.pid][act.row].count
                     n == CountOf(SourceOf(pre, act), act.color)
                 IN  /\ n > a
                     /\ f + (n - a) > Len(FLOOR_PENALTIES)
                     /\ cands[i].val = a + agent_prolog_score(pre.wall[last.pid], act.row, act.color)
                                         + floor_penalty_for_overflow(f, n - a)
                     /\ floor_penalty_for_overflow(f, n - a) < 0


\* C22: GreedyAgent.choose and GoalAgent.choose return None only where the
\* enumerated legal action set, the one RandomAgent and MiniMaxAgent build
\* for the same state, is empty.
NoneOnlyWithoutLegalAction ==
    (last.op \in {"greedy", "goal"} /\ ~last.ok) => legal_actions(pre, last.pid) = << >>


\* C23: RandomAgent.choose returns None exactly when the enumerated legal
\* action set is empty; otherwise it returns a member of the set, and in
\* every state where an agent is asked each member of the set is a possible
\* result.
RandomChoosesAnyMember ==
    /\ (last.op = "random") =>
          LET actions == legal_actions(pre, last.pid)
          IN  /\ ~last.ok <=> actions = << >>
              /\ last.ok => \E i \in 1..Len(actions) : ChosenAction(last) = actions[i]
    /\ AgentTurn =>
          \A pid \in Players :
             LET actions == legal_actions(Snapshot, pid)
             IN  \A i \in 1..Len(actions) :
                    ENABLED (RandomChoose(pid) /\ last' = ChoiceCall("random", pid, actions[i]))

RandomChoosesAnyMember_Witness ==
    /\ last.op = "random"
    /\ last.ok
    /\ Len(legal_actions(pre, last.pid)) >= 3
    /\ ChosenAction(last) = legal_actions(pre, last.pid)[Len(legal_actions(pre, last.pid))]
    /\ ChosenAction(last) # legal_actions(pre, last.pid)[1]


\* evaluate of the clone a candidate leads to
CandidateValue(g, pid, a) == evaluate(apply_action(g, pid, a), pid)

CenterTakeFrame ==
    (last.op = "center" /\ last.ok) =>
        /\ center = SelectSeq(pre.center, LAMBDA t : t # last.color)
        /\ factories = pre.factories
        /\ starting_player_marker_taken


\* the tiles one player's pass hands to the discard, rows ascending
RECURSIVE PlayerDiscards(_, _)
PlayerDiscards(p, r) ==
    IF r > GridSize THEN << >>
    ELSE (IF RowComplete(p, r) THEN Repeat(pre.pattern[p][r].color, ROW_CAP[r] - 1) ELSE << >>)
            \o PlayerDiscards(p, r + 1)

\* the discard when the refill starts: players in index order
RECURSIVE DiscardInOrder(_)
DiscardInOrder(p) ==
    IF p >= NumPlayers THEN << >>
    ELSE PlayerDiscards(p, 1) \o DiscardInOrder(p + 1)

\* C26: in end_round each player's rows are committed in ascending order, a
\* row's score being taken against the wall that already holds the cells of
\* the lower rows of the same pass; players are processed in index order
\* (their tiles reach the discard in that order), and a player's board after
\* the commit is what that player's pass alone makes of it.
CommitOrderAndIsolation ==
    (last.op = "end_round") =>
        /\ \A p \in Players :
              LET own == apply_floor(commit_rows(pre, p, 1), p)
              IN  /\ wall[p] = own.wall[p]
                  /\ pattern[p] = own.pattern[p]
                  /\ floor[p] = own.floor[p]
                  /\ score[p] = own.score[p]
                  /\ score[p] = pre.score[p] + RowScores(p) + floor_penalty(pre.floor[p])
        /\ Snapshot = refill_factories(
                          [factories |-> pre.factories, center |-> << >>, bag |-> pre.bag,
                           discard |-> pre.discard \o DiscardInOrder(0), rng |-> pre.rng,
                           pattern |-> pattern, wall |-> wall, score |-> score,
                           floor |-> floor, current |-> pre.current], 0)

CommitOrderAndIsolation_Witness ==
    /\ last.op = "end_round"
    /\ \E p \in Players :
          /\ RowComplete(p, 1) /\ RowComplete(p, 2)
          /\ RowScore(p, 2) > score_for_placement(pre.wall[p], 2, pre.pattern[p][2].color)[1]
    /\ RowComplete(0, 2) /\ RowComplete(1, 2)
    /\ pre.floor[0] # << >> /\ pre.floor[1] # << >>


\* C27: after end_round the center is empty; every factory holds FactorySize
\* tiles when bag and discard together held at least FactorySize tiles per
\* factory at the start of the refill; and each committed row of capacity r
\* has handed r - 1 tiles of its colour to the discard before the refill.
RoundEndRefill ==
    (last.op = "end_round") =>
        LET added == DiscardInOrder(0)
            avail == Len(pre.bag) + Len(pre.discard) + Len(added)
        IN  /\ center = << >>
            /\ (avail >= FactorySize * NumFactories) =>
                  \A i \in FactoryIdx : Len(factories[i]) = FactorySize
            /\ (Len(pre.bag) >= FactorySize * NumFactories) =>
                  discard = pre.discard \o added
            /\ \A c \in COLORS :
                  InFactories(c) + CountOf(bag, c) + CountOf(discard, c)
                     = CountOf(pre.bag, c) + CountOf(pre.discard, c) + CommittedTo(c)

RoundEndRefill_Witness ==
    /\ last.op = "end_round"
    /\ Len(pre.bag) + Len(pre.discard) + Len(DiscardInOrder(0)) >= FactorySize * NumFactories
    /\ \E p \in Players : RowComplete(p, 2)
    /\ discard # << >>
    /\ center = << >>
    /\ \A i \in FactoryIdx : Len(factories[i]) = FactorySize


\* ---------------- a silent oracle ----------------
PatternColumn(r, c) == ((c - 1 + r - 1) % GridSize) + 1

\* the score query (mode "noscore") or the column query (mode "nocol") of a
\* completed row of p goes unanswered
FaultHits(mode, p, r) ==
    /\ RowComplete(p, r)
    /\ oracle_fault.mode = mode
    /\ oracle_fault.row = r
    /\ oracle_fault.color = pre.pattern[p][r].color

Placed(p, r) == RowComplete(p, r) /\ ~FaultHits("nocol", p, r)

PlacedWallBefore(p, r) ==
    [rr \in Rows |-> [cc \in Rows |->
        IF pre.wall[p][rr][cc] = 1
              \/ (rr < r /\ Placed(p, rr) /\ cc = PatternColumn(rr, pre.pattern[p][rr].color))
        THEN 1 ELSE 0]]

AdjacencyScore(grid, r, c) ==
    LET h == Run(grid, r, c, 0, -1) + Run(grid, r, c, 0, 1)
        v == Run(grid, r, c, -1, 0) + Run(grid, r, c, 1, 0)
    IN  IF h = 0 /\ v = 0 THEN 1
        ELSE (IF h > 0 THEN h + 1 ELSE 0) + (IF v > 0 THEN v + 1 ELSE 0)

AnsweredScore(p, r) ==
    IF Placed(p, r) /\ ~FaultHits("noscore", p, r)
    THEN AdjacencyScore(PlacedWallBefore(p, r), r, PatternColumn(r, pre.pattern[p][r].color))
    ELSE 0

PlacedTo(c) ==
    SumSeq([i \in 1..NumPlayers |->
        SumSeq([r \in Rows |->
            IF Placed(i - 1, r) /\ pre.pattern[i - 1][r].color = c
            THEN ROW_CAP[r] - 1 ELSE 0])])

\* C28: when the oracle has no answer for a completed row during end_round,
\* the commit is carried through: without a column answer the row, its wall
\* row and the discard stay as they were; with a column but no score the
\* cell is filled and the row cleared for 0 points; every other completed
\* row is committed and scored, the floor penalty is charged, the floors and
\* the center are emptied and the factories refilled.
SilentOracleTolerated ==
    (last.op = "end_round" /\ oracle_fault # NoFault) =>
        /\ \A p \in Players :
              /\ \A r \in Rows :
                    /\ FaultHits("nocol", p, r) =>
                          /\ pattern[p][r] = pre.pattern[p][r]
                          /\ wall[p][r] = pre.wall[p][r]
                    /\ Placed(p, r) =>
                          /\ wall[p][r][PatternColumn(r, pre.pattern[p][r].color)] = 1
                          /\ pattern[p][r] = [color |-> None, count |-> 0]
              /\ score[p] = pre.score[p] + SumSeq([r \in Rows |-> AnsweredScore(p, r)])
                               + floor_penalty(pre.floor[p])
              /\ floor[p] = << >>
        /\ center = << >>
        /\ \A c \in COLORS :
              InFactories(c) + CountOf(bag, c) + CountOf(discard, c)
                 = CountOf(pre.bag, c) + CountOf(pre.discard, c) + PlacedTo(c)
        /\ (Len(pre.bag) >= FactorySize * NumFactories) =>
              \A i \in FactoryIdx : Len(factories[i]) = FactorySize

SilentOracleTolerated_Witness ==
    /\ last.op = "end_round"
    /\ \E p \in Players :
          /\ FaultHits("nocol", p, 1)
          /\ Placed(p, 2)
          /\ pattern[p][1] = pre.pattern[p][1]
          /\ pattern[p][2].count = 0
          /\ pre.floor[p] # << >>
          /\ Placed(1 - p, 2)
          /\ wall[1 - p] # pre.wall[1 - p]
    /\ \A i \in FactoryIdx : Len(factories[i]) = FactorySize


RoundEmptyIn(g) ==
    /\ \A i \in FactoryIdx : g.factories[i] = << >>
    /\ g.center = << >>

\* C30: end_round is only executed from a state where every factory and the
\* center are empty; once the round is empty no draft (accepted or rejected)
\* is executed before that end_round: every draft starts from a round that
\* is not empty, and the only step out of an empty round is end_round.
EndRoundOnlyWhenEmpty ==
    /\ [](last.op = "end_round" => RoundEmptyIn(pre))
    /\ [](IsDraft(last) => ~RoundEmptyIn(pre))
    /\ [][RoundEmptyIn(Snapshot) => last'.op = "end_round"]_vars

EndRoundOnlyWhenEmpty_Witness ==
    /\ last.op = "end_round"
    /\ RoundEmptyIn(pre)
    /\ \E p \in Players : pre.floor[p] # << >>
    /\ \A p \in Players : \E r \in Rows : pre.pattern[p][r].count > 0
    /\ ~is_round_empty
    /\ pc = "draft"


\* ---------------- the length of a round ----------------
PoolIn(g) ==
    SumSeq([i \in 1..NumFactories |-> Len(g.factories[i - 1])]) + Len(g.center)

\* the tiles the draft `last` asked for, counted in the game it started from
TilesAsked(g, c) ==
    IF c.op = "factory" THEN CountOf(g.factories[c.k], c.color)
    ELSE CountOf(g.center, c.color)

\* C31: an accepted draft takes at least one tile and lowers the number of
\* tiles in factories and center by exactly the tiles taken; a rejected draft
\* and any other command leave that number as it was; so the accepted drafts
\* of a round plus the tiles still on offer never exceed 4 per factory, and
\* a round has at most 4 * NumFactories accepted drafts.
DraftsBoundedByPool ==
    /\ (IsDraft(last) /\ last.ok) =>
          /\ TilesAsked(pre, last) >= 1
          /\ PoolTiles = PoolIn(pre) - TilesAsked(pre, last)
          /\ PoolTiles < PoolIn(pre)
    /\ ((IsDraft(last) /\ ~last.ok) \/ last.op = "other") => PoolTiles = PoolIn(pre)
    /\ round_drafts + PoolTiles <= FactorySize * NumFactories
    /\ round_drafts <= FactorySize * NumFactories

\* a round that took more drafts than there are factories, the last one
\* from the center into a row with no room left
DraftsBoundedByPool_Witness ==
    /\ last.op = "center" /\ last.ok
    /\ is_round_empty
    /\ round_drafts > NumFactories
    /\ pre.pattern[last.pid][last.row].count = ROW_CAP[last.row]


\* ---------------- what a draft leaves alone ----------------
\* C32: an accepted draft by player p into row r leaves alone every factory
\* but the one taken from (all of them when the tiles come from the center),
\* the bag, the discard, the other rows of p, every wall, every score, and
\* the rows and floor of every other player.
DraftFrame ==
    (IsDraft(last) /\ last.ok) =>
        /\ \A i \in FactoryIdx :
              (last.op = "center" \/ i # last.k) => factories[i] = pre.factories[i]
        /\ bag = pre.bag
        /\ discard = pre.discard
        /\ \A r \in Rows : r # last.row => pattern[last.pid][r] = pre.pattern[last.pid][r]
        /\ wall = pre.wall
        /\ score = pre.score
        /\ \A q \in Players :
              q # last.pid => (pattern[q] = pre.pattern[q] /\ floor[q] = pre.floor[q])

\* a factory draft with overflow, while other factories hold tiles, the
\* discard is not empty and the other player holds tiles in a row and on the floor
DraftFrame_Witness ==
    /\ last.op = "factory" /\ last.ok
    /\ Len(floor[last.pid]) > Len(pre.floor[last.pid])
    /\ \E i \in FactoryIdx : i # last.k /\ factories[i] # << >>
    /\ discard # << >>
    /\ \E q \in Players :
          /\ q # last.pid
          /\ floor[q] # << >>
          /\ \E r \in Rows : pattern[q][r].count > 0
    /\ \E r \in Rows : r # last.row /\ pattern[last.pid][r].count > 0
    /\ \E q \in Players : score[q] # 0


\* ---------------- a wall cell is filled once ----------------
\* C33: end_round never places a tile on a wall cell that is already filled:
\* the cell a completed row is committed to is free when end_round starts,
\* so each cell of each wall is filled, and scored, at most once in a game.
WallCellFilledOnce ==
    (last.op = "end_round") =>
        \A p \in Players, r \in Rows :
            RowComplete(p, r) => pre.wall[p][r][ColumnOf(p, r)] = 0


\* ---------------- the engine accepts what an agent returns ----------------
IsChoice(c) == c.op \in {"random", "greedy", "goal", "minimax"}

\* the draft `c` names, tried by player c.pid on the game as it is now
EngineAccepts(c) ==
    IF c.k = -1 THEN center_accepts(c.pid, c.color, c.row)
    ELSE factory_accepts(c.pid, c.k, c.color, c.row)

\* C34: an action returned by RandomAgent, GreedyAgent, GoalAgent or
\* MiniMaxAgent for player p is accepted by take_from_factory /
\* take_from_center when it is applied for p to the game choose was called
\* on, with no step in between; when p is the player to move, the draft
\* command of the loop succeeds.
AgentChoiceAccepted ==
    (IsChoice(last) /\ last.ok) =>
        /\ Snapshot = pre
        /\ EngineAccepts(last)
        /\ (last.pid = current) =>
              IF last.k = -1
              THEN ENABLED (take_from_center(last.color, last.row) /\ last'.ok)
              ELSE ENABLED (take_from_factory(last.k, last.color, last.row) /\ last'.ok)

\* an agent picks from the center for the player to move, who holds another
\* colour in some row (a pair the enumeration left out)
AgentChoiceAccepted_Witness ==
    /\ IsChoice(last) /\ last.ok
    /\ last.k = -1
    /\ last.pid = current
    /\ \E r \in Rows : pattern[last.pid][r].color \notin {None, last.color}
    /\ pattern[last.pid][last.row].count > 0


\* ---------------- rows that carry over ----------------
\* C35: end_round leaves every pattern line that is not completely filled
\* with the colour and the count it had; the lines it clears are completely
\* filled ones.
PartialRowsCarryOver ==
    (last.op = "end_round") =>
        \A p \in Players, r \in Rows :
            /\ ~RowComplete(p, r) => pattern[p][r] = pre.pattern[p][r]
            /\ pattern[p][r] # pre.pattern[p][r] =>
                  /\ pre.pattern[p][r].count = ROW_CAP[r]
                  /\ pattern[p][r] = [color |-> None, count |-> 0]

\* one player ends the round with a full row and a half-filled one
PartialRowsCarryOver_Witness ==
    /\ last.op = "end_round"
    /\ \E p \in Players, r \in Rows, q \in Rows :
          /\ RowComplete(p, r)
          /\ pattern[p][r].count = 0
          /\ pre.pattern[p][q].count > 0
          /\ pre.pattern[p][q].count < ROW_CAP[q]
          /\ pattern[p][q] = pre.pattern[p][q]
    /\ pc = "draft"
    /\ ~is_round_empty


\* ---------------- GoalAgent and GreedyAgent ----------------
\* C36: on every game and for every player GoalAgent.choose and the first
\* GreedyAgent.choose return the same action, or both return None: what the
\* one returned is what the other returns on the game it was called on.
GoalEqualsGreedy ==
    /\ (last.op = "goal") =>
          last = ChoiceCall("goal", last.pid, greedy_choose(pre, last.pid))
    /\ (last.op = "greedy") =>
          last = ChoiceCall("greedy", last.pid, goal_choose(pre, last.pid))

\* GoalAgent picks among candidates of different values, the best value is
\* reached by two of them and the first candidate is not one of the best
GoalEqualsGreedy_Witness ==
    /\ last.op = "goal" /\ last.ok
    /\ LET cands == goal_candidates(pre, last.pid)
           best == goal_value(pre, last.pid, goal_choose(pre, last.pid))
       IN  /\ goal_value(pre, last.pid, cands[1]) < best
           /\ Cardinality({i \in 1..Len(cands) : goal_value(pre, last.pid, cands[i]) = best}) >= 2

====
